---- MODULE Spec2Model ----
(***************************************************************************)
(* A model of the bonito CRF basecalling pipeline: split_read, the         *)
(* quantiser, the beam-search decode wrapper, signal_map, the staged        *)
(* pipeline built by basecall, and the Writer thread of bonito.io.         *)
(*                                                                         *)
(* Every component has its own variables and its own specification; a      *)
(* specification leaves the variables of the other components at their     *)
(* idle values.                                                            *)
(***************************************************************************)
EXTENDS Integers, Sequences, FiniteSets

VARIABLES
    pipe,       \* the pipeline of basecall: its queues, threads and output
    split,      \* split_read: one call, its arguments and its result
    quant,      \* quantise_int8: the bundle x, the call's locals, its results
    dec,        \* decode_int8 and the result tuple basecall builds from it
    trim,       \* signal_map: the result v, the alignment array, the output
    wr,         \* Writer.run: the iterator, the counters of what it wrote
    main,       \* the read loop of basecaller.main: its counters and queue
    log         \* a CSVLogger: its columns, its counter, the rows it wrote

vars == <<pipe, split, quant, dec, trim, wr, main, log>>

Min(a, b) == IF a <= b THEN a ELSE b

None == "None"

\* What each component's actions leave alone: the other components.
notPipe == <<split, quant, dec, trim, wr, main, log>>

notSplit == <<pipe, quant, dec, trim, wr, main, log>>

notQuant == <<pipe, split, dec, trim, wr, main, log>>

notDec == <<pipe, split, quant, trim, wr, main, log>>

notTrim == <<pipe, split, quant, dec, wr, main, log>>

notWr == <<pipe, split, quant, dec, trim, main, log>>

notMain == <<pipe, split, quant, dec, trim, wr, log>>

notLog == <<pipe, split, quant, dec, trim, wr, main>>

\* The value of a component's variable in the specifications of the others.
PipeIdle == pipe = [pc |-> "idle"]

SplitIdle == split = [pc |-> "idle"]

QuantIdle == quant = [pc |-> "idle"]

DecIdle == dec = [pc |-> "idle"]

TrimIdle == trim = [pc |-> "idle"]

WrIdle == wr = [pc |-> "idle"]

MainIdle == main = [pc |-> "idle"]

LogIdle == log = [pc |-> "idle"]

(***************************************************************************)
(* split_read (crf/basecall.py)                                            *)
(***************************************************************************)

\* Largest signal length and split_read_length the split specification draws.
MaxSignalLen == 13

MaxSplitLen == 5

\* np.arange(lo, hi, step) for step > 0: lo, lo+step, ... strictly below hi.
Arange(lo, hi, step) ==
    IF hi <= lo THEN <<>>
    ELSE [i \in 1..((hi - lo + step - 1) \div step) |-> lo + (i - 1) * step]

\* The breaks of a split that forgets the extra split_read_length.
BreaksShort(siglen, split_read_length) ==
    Arange(0, siglen, split_read_length)

\* breaks = np.arange(0, len(read.signal) + split_read_length, split_read_length)
Breaks(siglen, split_read_length) ==
    Arange(0, siglen + split_read_length, split_read_length)

\* split_read(read, split_read_length): the list of (read, start, end).
SplitRead(read, siglen, split_read_length) ==
    IF siglen <= split_read_length
    THEN << <<read, 0, siglen>> >>
    ELSE LET breaks == Breaks(siglen, split_read_length)
         IN  [i \in 1..(Len(breaks) - 1) |->
                 <<read, breaks[i], Min(breaks[i + 1], siglen)>>]

SplitStart ==
    \E L \in 0..MaxSignalLen, S \in 1..MaxSplitLen :
        split = [pc |-> "call", siglen |-> L, split_read_length |-> S,
                 out |-> <<>>]

CallSplitRead ==
    /\ split.pc = "call"
    /\ split' = [split EXCEPT
                    !.pc = "done",
                    !.out = SplitRead("r", split.siglen, split.split_read_length)]
    /\ UNCHANGED notSplit

SplitInit == PipeIdle /\ SplitStart /\ QuantIdle /\ DecIdle /\ TrimIdle /\ WrIdle /\ MainIdle /\ LogIdle

SplitNext == CallSplitRead

SplitSpec == SplitInit /\ [][SplitNext]_vars

\* C1: for every signal length L >= 0 and split_read_length S >= 1 the list
\* split_read returns is non-empty and partitions [0, L): it starts at 0,
\* each start is the previous end, it ends at L, every piece is at most S
\* long, and when L > S no piece is empty.
C1_SplitPartitions ==
    split.pc = "done" =>
        LET out == split.out
            L == split.siglen
            S == split.split_read_length
        IN  /\ Len(out) >= 1
            /\ out[1][2] = 0
            /\ out[Len(out)][3] = L
            /\ \A i \in 1..Len(out) :
                  /\ out[i][1] = "r"
                  /\ out[i][3] - out[i][2] <= S
                  /\ out[i][3] >= out[i][2]
                  /\ (L > S => out[i][3] > out[i][2])
                  /\ (i > 1 => out[i][2] = out[i - 1][3])

\* A split into three pieces whose last piece is shorter than the others.
C1_Witness ==
    /\ split.pc = "done"
    /\ Len(split.out) = 3
    /\ split.siglen > 2 * split.split_read_length
    /\ split.out[3][3] - split.out[3][2] < split.split_read_length

(***************************************************************************)
(* compute_scores and quantise_int8 (crf/basecall.py)                      *)
(*                                                                         *)
(* A float is an exact rational <<n, d>> with d > 0 (the rounding of the   *)
(* float16 and float32 formats is left out); a tensor is a sequence of     *)
(* them.  The scores tensor has one element, the betas tensor the two      *)
(* states of one time-step.                                                *)
(***************************************************************************)

\* The raw values the model emits are RawStep * k for k in -MaxRaw..MaxRaw.
MaxRaw == 3

\* How many times quantise_int8 is called on the same bundle.
MaxCalls == 2

\* The step between the raw values drawn (they are multiples of it).
RawStep == 3

RawValues == {<<RawStep * k, 1>> : k \in (-MaxRaw)..MaxRaw}

\* scale=127/5 is the default of quantise_int8; the others are callers' choices.
Scales == {<<127, 5>>, <<1, 1>>, <<2, 1>>}

RMul(a, b) == <<a[1] * b[1], a[2] * b[2]>>

RSub(a, b) == <<a[1] * b[2] - b[1] * a[2], a[2] * b[2]>>

RLeq(a, b) == a[1] * b[2] <= b[1] * a[2]

REq(a, b) == a[1] * b[2] = b[1] * a[2]

RInt(k) == <<k, 1>>

RMax(a, b) == IF RLeq(a, b) THEN b ELSE a

TensorEq(s, t) ==
    /\ Len(s) = Len(t)
    /\ \A i \in 1..Len(s) : REq(s[i], t[i])

Floor(a) == a[1] \div a[2]

\* torch.round: to the nearest integer, a tie to the even one.
Round(a) ==
    LET f == Floor(a)
        r == a[1] - f * a[2]
    IN  IF 2 * r < a[2] THEN f
        ELSE IF 2 * r > a[2] THEN f + 1
        ELSE IF f % 2 = 0 THEN f ELSE f + 1

\* torch.clamp(t, lo, hi) on one element.
Clamp(a, lo, hi) ==
    IF RLeq(a, RInt(lo)) THEN RInt(lo)
    ELSE IF RLeq(RInt(hi), a) THEN RInt(hi)
    ELSE a

Int8Min == -128

Int8Max == 127

InInt8(v) == Int8Min <= v /\ v <= Int8Max

\* .to(torch.int8) of an integral float: the value when it is representable;
\* otherwise the conversion is undefined and the build either wraps or
\* saturates.
CastInt8(v, mode) ==
    IF InInt8(v) THEN v
    ELSE IF mode = "wrap" THEN ((v - Int8Min) % 256) + Int8Min
    ELSE IF v > Int8Max THEN Int8Max ELSE Int8Min

CastModes == {"wrap", "saturate"}

\* betas -= (betas.max(2, keepdim=True)[0] - 5.0)
Recentre(betas) ==
    LET m == RMax(betas[1], betas[2])
    IN  [i \in 1..Len(betas) |-> RSub(betas[i], RSub(m, RInt(5)))]

\* compute_scores: the bundle {'scores': ..., 'betas': ...}.
ComputeScoresBundle(scores, betas) ==
    [scores |-> <<scores>>, betas |-> Recentre(betas)]

\* scores *= scale; betas *= scale: in place, on the tensors of x.
ScaleInPlace(t, scale) == [i \in 1..Len(t) |-> RMul(t[i], scale)]

\* The lower and upper limits of torch.clamp(betas, -127., 128.).
ClampLo == -127

ClampHi == 128

\* The values handed to .to(torch.int8): torch.round(scores) and
\* torch.round(torch.clamp(betas, -127., 128.)).
PreCastScores(scaled) == [i \in 1..Len(scaled) |-> Round(scaled[i])]

PreCastBetas(scaled) ==
    [i \in 1..Len(scaled) |-> Round(Clamp(scaled[i], ClampLo, ClampHi))]

QuantStart ==
    \E s \in RawValues, b1 \in RawValues, b2 \in RawValues, sc \in Scales,
       direct \in BOOLEAN :
        quant = [pc |-> "model", scale |-> sc, direct |-> direct,
                 raw |-> [scores |-> s, betas |-> <<b1, b2>>],
                 x |-> None, x0 |-> None, calls |-> 0,
                 precast |-> None, results |-> <<>>]

\* compute_scores(model, batch): x is its bundle.  A direct caller of
\* quantise_int8 hands it a bundle of its own instead.
CallComputeScores ==
    /\ quant.pc = "model"
    /\ LET x == IF quant.direct
                THEN [scores |-> <<quant.raw.scores>>, betas |-> quant.raw.betas]
                ELSE ComputeScoresBundle(quant.raw.scores, quant.raw.betas)
       IN  quant' = [quant EXCEPT !.pc = "quantise", !.x = x, !.x0 = x]
    /\ UNCHANGED notQuant

\* quantise_int8(x, scale): one call, whole.
CallQuantiseInt8 ==
    /\ quant.pc \in {"quantise", "returned"}
    /\ quant.calls < MaxCalls
    /\ \E mode \in CastModes :
        LET scores == ScaleInPlace(quant.x.scores, quant.scale)
            betas  == ScaleInPlace(quant.x.betas, quant.scale)
            ps     == PreCastScores(scores)
            pb     == PreCastBetas(betas)
            res    == [scores |-> [i \in 1..Len(ps) |-> CastInt8(ps[i], mode)],
                       betas  |-> [i \in 1..Len(pb) |-> CastInt8(pb[i], mode)]]
        IN  quant' = [quant EXCEPT
                        !.pc = "returned",
                        !.x = [scores |-> scores, betas |-> betas],
                        !.calls = @ + 1,
                        !.precast = [scores |-> ps, betas |-> pb],
                        !.results = Append(@, res)]
    /\ UNCHANGED notQuant

QuantInit == PipeIdle /\ SplitIdle /\ QuantStart /\ DecIdle /\ TrimIdle /\ WrIdle /\ MainIdle /\ LogIdle

QuantNext == CallComputeScores \/ CallQuantiseInt8

QuantSpec == QuantInit /\ [][QuantNext]_vars

\* C6: every value quantise_int8 casts to signed 8-bit (the rounded scaled
\* scores, the rounded clamped scaled betas) lies in [-128, 127] at the cast.
C6_CastInRange ==
    quant.pc = "returned" =>
        /\ \A i \in 1..Len(quant.precast.scores) : InInt8(quant.precast.scores[i])
        /\ \A i \in 1..Len(quant.precast.betas) : InInt8(quant.precast.betas[i])

\* C7: quantise_int8 is pure: after it returns, the 'scores' and 'betas' of
\* the bundle passed to it are what they were, and a second call on the same
\* bundle returns the result of the first.
C7_QuantisePure ==
    quant.pc = "returned" =>
        /\ TensorEq(quant.x.scores, quant.x0.scores)
        /\ TensorEq(quant.x.betas, quant.x0.betas)
        /\ \A i, j \in 1..Len(quant.results) : quant.results[i] = quant.results[j]

(***************************************************************************)
(* decode_int8 and the result tuple of basecall (crf/basecall.py)          *)
(*                                                                         *)
(* A string is a sequence of one-letter strings; "" is <<>>.               *)
(***************************************************************************)

\* Longest beam-search path drawn.
MaxPathLen == 2

\* The state indices a path is drawn from.
PathStates == 0..4

\* A read has one sub-read, or two.
PartCounts == {1, 2}

Alphabet == <<"N", "A", "C", "G", "T">>

\* The alphabets a seqdist may carry: the full one and its shorter prefixes.
AlphabetLens == 1..Len(Alphabet)

SeqsUpTo(S, n) == UNION {[1..k -> S] : k \in 0..n}

Paths == SeqsUpTo(PathStates, MaxPathLen)

\* path % 4 + 1
Project(path) == [i \in 1..Len(path) |-> (path[i] % 4) + 1]

\* seqdist.path_to_str(idx): alphabet[idx], which raises IndexError when an
\* index is not below the alphabet's length.
PathToStr(idx, alen) ==
    IF \E i \in 1..Len(idx) : idx[i] >= alen
    THEN [raised |-> TRUE, str |-> <<>>]
    ELSE [raised |-> FALSE, str |-> [i \in 1..Len(idx) |-> Alphabet[idx[i] + 1]]]

\* decode_int8 without its except clause: the IndexError leaves the call.
DecodeInt8NoExcept(path, alen) ==
    LET r == PathToStr(Project(path), alen)
    IN  IF r.raised THEN [exc |-> "IndexError", value |-> <<>>]
        ELSE [exc |-> None, value |-> r.str]

\* decode_int8: try: return path_to_str(path % 4 + 1)
\*              except IndexError: return ""
DecodeInt8(path, alen) ==
    LET r == PathToStr(Project(path), alen)
    IN  IF r.raised THEN [exc |-> None, value |-> <<>>]
        ELSE [exc |-> None, value |-> r.str]

RECURSIVE Join(_)
\* ''.join(parts)
Join(parts) ==
    IF parts = <<>> THEN <<>> ELSE Head(parts) \o Join(Tail(parts))

\* {'sequence': seq, 'qstring': '?' * len(seq) if qscores else '*',
\*  'mean_qscore': 0.0}
BasecallResult(seq, qscores) ==
    [sequence |-> seq,
     qstring |-> IF qscores THEN [i \in 1..Len(seq) |-> "?"] ELSE <<"*">>,
     mean_qscore |-> 0]

DecStart ==
    \E alen \in AlphabetLens, n \in PartCounts, q \in BOOLEAN :
        dec = [pc |-> "decode", alen |-> alen, nparts |-> n, qscores |-> q,
               indexError |-> <<>>, parts |-> <<>>, exc |-> None,
               out |-> None]

\* One decode worker's call of _decode on the next sub-read of the read; the
\* path is whatever beamsearch returns.
CallDecodeInt8 ==
    /\ dec.pc = "decode"
    /\ Len(dec.parts) < dec.nparts
    /\ \E path \in Paths :
        LET r == DecodeInt8(path, dec.alen)
            e == PathToStr(Project(path), dec.alen).raised
        IN  IF r.exc = None
            THEN dec' = [dec EXCEPT
                            !.parts = Append(@, r.value),
                            !.indexError = Append(@, e)]
            ELSE dec' = [dec EXCEPT
                            !.pc = "failed",
                            !.exc = r.exc,
                            !.indexError = Append(@, e)]
    /\ UNCHANGED notDec

\* The regrouping and the result dict of basecall, for this read.
EmitBasecall ==
    /\ dec.pc = "decode"
    /\ Len(dec.parts) = dec.nparts
    /\ dec' = [dec EXCEPT
                  !.pc = "emitted",
                  !.out = <<"r", BasecallResult(Join(dec.parts), dec.qscores)>>]
    /\ UNCHANGED notDec

DecInit == PipeIdle /\ SplitIdle /\ QuantIdle /\ DecStart /\ TrimIdle /\ WrIdle /\ MainIdle /\ LogIdle

DecNext == CallDecodeInt8 \/ EmitBasecall

DecSpec == DecInit /\ [][DecNext]_vars

\* C8: decode_int8 never propagates an indexing failure: whenever the
\* projection of the path raises IndexError the call returns "", and the
\* pipeline carries the read on as an ordinary (read, result) tuple, whose
\* sequence is empty when every sub-read of the read failed so.
C8_IndexErrorAbsorbed ==
    /\ dec.pc # "failed"
    /\ dec.pc # "idle" =>
          /\ dec.exc = None
          /\ \A i \in 1..Len(dec.parts) :
                dec.indexError[i] => dec.parts[i] = <<>>
    /\ dec.pc = "emitted" =>
          /\ dec.out[1] = "r"
          /\ dec.out[2].sequence = Join(dec.parts)
          /\ ((\A i \in 1..Len(dec.indexError) : dec.indexError[i])
                 => dec.out[2].sequence = <<>>)

\* A read of one sub-read whose projection raised, emitted as a tuple.
C8_Witness ==
    /\ dec.pc = "emitted"
    /\ dec.nparts = 1
    /\ dec.indexError = <<TRUE>>
    /\ dec.out[2].sequence = <<>>

(***************************************************************************)
(* signal_map (crf/basecall.py) and the trim of write_trimmed_fast5        *)
(* (io.py), which locate the mapping's q_st and q_en in the alignment      *)
(* array the same way.                                                     *)
(*                                                                         *)
(* alignments is the numpy array of compute_signal_alignments: the         *)
(* sequence element i is the array's element i - 1.                        *)
(***************************************************************************)

\* Longest alignment array drawn, and the largest aligned index in one.
MaxAlignLen == 4

MaxQ == 2

\* The mapping of an unmapped read (None); a mapped read's is a record
\* [is_none |-> FALSE, q_st |-> ..., q_en |-> ...].
NoMapping == [is_none |-> TRUE]

\* The mapping the Writer reads from a result that has no 'mapping' key:
\* res.get('mapping', False).
FalseMapping == [is_none |-> FALSE, is_false |-> TRUE]

\* if mapping: None and False are falsy, a mapping record is truthy.
Truthy(mapping) == mapping # NoMapping /\ mapping # FalseMapping

\* np.where(alignments == q)[0]: the 0-based positions holding q.
Where(alignments, q) == {i - 1 : i \in {j \in 1..Len(alignments) : alignments[j] = q}}

SetMin(S) == CHOOSE x \in S : \A y \in S : x <= y

SetMax(S) == CHOOSE x \in S : \A y \in S : x >= y

\* A start taken at the last position aligned to q_st instead of the first.
TrimStartLast(alignments, q_st) ==
    IF Where(alignments, q_st) = {}
    THEN [exc |-> "ValueError", value |-> 0]
    ELSE [exc |-> None, value |-> SetMax(Where(alignments, q_st))]

\* start = np.where(alignments == mapping.q_st)[0].min(); min() of an empty
\* array raises ValueError.
TrimStart(alignments, q_st) ==
    IF Where(alignments, q_st) = {}
    THEN [exc |-> "ValueError", value |-> 0]
    ELSE [exc |-> None, value |-> SetMin(Where(alignments, q_st))]

\* end = len(alignments) when no position holds q_en, else the last that does.
TrimEnd(alignments, q_en) ==
    IF Cardinality(Where(alignments, q_en)) = 0
    THEN Len(alignments)
    ELSE SetMax(Where(alignments, q_en))

\* The (trim_start, trim_end) of a mapped read, or the exception raised.
TrimPositions(alignments, mapping, stride) ==
    LET start == TrimStart(alignments, mapping.q_st)
    IN  IF start.exc # None
        THEN [exc |-> start.exc, value |-> None]
        ELSE [exc |-> None,
              value |-> <<start.value * stride,
                          TrimEnd(alignments, mapping.q_en) * stride>>]

\* trim_start, trim_end = -1, -1
Unset == <<-1, -1>>

\* signal_map(model, read, v): the tuple returned, or the exception raised.
SignalMap(read, v, alignments, stride) ==
    IF Truthy(v.mapping)
    THEN LET t == TrimPositions(alignments, v.mapping, stride)
         IN  IF t.exc # None
             THEN [exc |-> t.exc, value |-> None]
             ELSE [exc |-> None,
                   value |-> <<read, [mapping |-> v.mapping,
                                      trim_positions |-> t.value] >>]
    ELSE [exc |-> None,
          value |-> <<read, [mapping |-> v.mapping, trim_positions |-> Unset] >>]

\* The mappings of a result: none, or a record with 0 <= q_st < q_en.
Mappings ==
    {NoMapping} \cup {[is_none |-> FALSE, q_st |-> a, q_en |-> b] :
                          a \in 0..MaxQ, b \in 1..(MaxQ + 1)}

AlignmentArrays == SeqsUpTo(0..MaxQ, MaxAlignLen)

\* model.stride
Strides == {1, 2, 5}

\* The trim scenario of the specification: q_st = 10 first at position 3,
\* q_en = 200 last at position 45, stride 5.
ScenarioAlignments ==
    [i \in 1..50 |->
        IF i - 1 < 3 THEN 9
        ELSE IF i - 1 < 6 THEN 10
        ELSE IF i - 1 < 41 THEN 100
        ELSE IF i - 1 <= 45 THEN 200
        ELSE 201]

ScenarioMapping == [is_none |-> FALSE, q_st |-> 10, q_en |-> 200]

TrimStartState(mapping, alignments, stride) ==
    trim = [pc |-> "call", v |-> [mapping |-> mapping],
            alignments |-> alignments, stride |-> stride,
            exc |-> None, out |-> None]

TrimBegin ==
    \/ \E mp \in Mappings, al \in AlignmentArrays, st \in Strides :
          /\ (~mp.is_none => mp.q_st < mp.q_en)
          /\ TrimStartState(mp, al, st)
    \/ TrimStartState(ScenarioMapping, ScenarioAlignments, 5)

\* signal_map(model, read, v), whole.
CallSignalMap ==
    /\ trim.pc = "call"
    /\ LET r == SignalMap("r", trim.v, trim.alignments, trim.stride)
       IN  IF r.exc # None
           THEN trim' = [trim EXCEPT !.pc = "raised", !.exc = r.exc]
           ELSE trim' = [trim EXCEPT !.pc = "returned", !.out = r.value]
    /\ UNCHANGED notTrim

TrimInit == PipeIdle /\ SplitIdle /\ QuantIdle /\ DecIdle /\ TrimBegin /\ WrIdle /\ MainIdle /\ LogIdle

TrimNext == CallSignalMap

TrimSpec == TrimInit /\ [][TrimNext]_vars

\* Position p (0-based) of the array holds q.
Holds(alignments, p, q) ==
    p \in 0..(Len(alignments) - 1) /\ alignments[p + 1] = q

\* C10: when the result has a mapping and the alignment array holds both
\* q_st and q_en, signal_map sets trim_positions to (s * stride, e * stride)
\* with s the smallest position aligned to q_st and e the largest aligned to
\* q_en; in the specification's scenario that is (15, 225).
C10_TrimPositions ==
    /\ trim.pc \in {"returned", "raised"} /\ ~trim.v.mapping.is_none =>
          \A s, e \in 0..(Len(trim.alignments) - 1) :
              ( /\ Holds(trim.alignments, s, trim.v.mapping.q_st)
                /\ \A p \in 0..(s - 1) :
                      ~Holds(trim.alignments, p, trim.v.mapping.q_st)
                /\ Holds(trim.alignments, e, trim.v.mapping.q_en)
                /\ \A p \in (e + 1)..(Len(trim.alignments) - 1) :
                      ~Holds(trim.alignments, p, trim.v.mapping.q_en) )
              => /\ trim.pc = "returned"
                 /\ trim.out[1] = "r"
                 /\ trim.out[2].trim_positions
                       = <<s * trim.stride, e * trim.stride>>
    /\ ( /\ trim.pc # "idle"
         /\ trim.pc # "call"
         /\ trim.alignments = ScenarioAlignments
         /\ trim.v.mapping = ScenarioMapping
         /\ trim.stride = 5 )
       => trim.pc = "returned" /\ trim.out[2].trim_positions = <<15, 225>>

\* The scenario of the specification has been run.
C10_Witness ==
    /\ trim.pc = "returned"
    /\ trim.alignments = ScenarioAlignments
    /\ trim.v.mapping = ScenarioMapping
    /\ trim.out[2].trim_positions = <<15, 225>>

\* signal_map has run on a result that has a mapping.
Mapped == trim.pc \in {"returned", "raised"} /\ Truthy(trim.v.mapping)

\* No time-step of the alignment array is aligned to q.
Absent(alignments, q) ==
    \A p \in 0..(Len(alignments) - 1) : ~Holds(alignments, p, q)

\* C11: when the result has a mapping and no time-step of the alignment
\* array is aligned to q_en, signal_map does not fail and trim_end is
\* len(alignments) * stride.
C11_EndFallback ==
    (Mapped /\ Absent(trim.alignments, trim.v.mapping.q_en)) =>
        /\ trim.pc = "returned"
        /\ trim.out[2].trim_positions[2] = Len(trim.alignments) * trim.stride

\* The fallback of C11 where q_st is aligned to some time-step: the call
\* returns and trim_end is the full length times the stride.
EndFallbackWhenStartFound ==
    ( /\ Mapped
      /\ Absent(trim.alignments, trim.v.mapping.q_en)
      /\ ~Absent(trim.alignments, trim.v.mapping.q_st) ) =>
        /\ trim.pc = "returned"
        /\ trim.out[2].trim_positions[2] = Len(trim.alignments) * trim.stride

\* C12: for every result and every alignment array, also one in which no
\* time-step is aligned to q_st, signal_map returns a (read, result) tuple
\* that carries a trim_positions pair; it never raises.
C12_NeverRaises ==
    trim.pc \in {"returned", "raised"} =>
        /\ trim.pc = "returned"
        /\ trim.out[1] = "r"
        /\ Len(trim.out[2].trim_positions) = 2

(***************************************************************************)
(* Writer.run (io.py)                                                      *)
(*                                                                         *)
(* The iterator hands over (read, res) tuples.  A read is its read_id and  *)
(* the length of its signal; a duplex read is a pair of them.              *)
(***************************************************************************)

\* Longest iterator drawn.
MaxResults == 2

\* The one mapping a mapped result carries, and the arrays that
\* compute_alignments returns for its read: with q_st and q_en, without
\* q_st, without q_en.
WrMapping == [is_none |-> FALSE, q_st |-> 0, q_en |-> 2]

WrAlignments == {<<0, 1, 2>>, <<1, 2>>, <<0, 1>>}

BaseStrings == {<<>>, <<"A">>}

\* The results basecall yields: with an aligner every result has a
\* 'mapping' (None or a record), without one it has no such key.
WrResults(aligner) ==
    IF aligner
    THEN {[sequence |-> q, mapping |-> NoMapping, alignments |-> <<>>] :
             q \in BaseStrings}
         \cup {[sequence |-> q, mapping |-> WrMapping, alignments |-> al] :
                  q \in BaseStrings, al \in WrAlignments}
    ELSE {[sequence |-> q, mapping |-> FalseMapping, alignments |-> <<>>] :
             q \in BaseStrings}

\* The k-th read of the input: read_id k, a signal of k samples; in duplex
\* mode the pair of it and its complement read.
WrRead(k, duplex) ==
    IF duplex
    THEN <<[read_id |-> k, samples |-> k], [read_id |-> k + 100, samples |-> k + 1]>>
    ELSE <<[read_id |-> k, samples |-> k]>>

\* read_id = '%s;%s' % (read[0].read_id, read[1].read_id), or read.read_id
ReadId(read) == [i \in 1..Len(read) |-> read[i].read_id]

\* samples = len(read[0].signal) + len(read[1].signal), or len(read.signal)
Samples(read) ==
    IF Len(read) = 2 THEN read[1].samples + read[2].samples ELSE read[1].samples

WrStart ==
    \E aligner \in BOOLEAN, fastq \in BOOLEAN, duplex \in BOOLEAN,
       trimflag \in BOOLEAN, st \in Strides :
        /\ ~(duplex /\ trimflag)
        /\ (trimflag => aligner)
        /\ (~trimflag => st = 5)
        /\ \E it \in SeqsUpTo(WrResults(aligner), MaxResults) :
              wr = [pc |-> "run", aligner |-> aligner, fastq |-> fastq,
                    duplex |-> duplex, trim |-> trimflag, stride |-> st,
                    iterator |-> it, consumed |-> 0, nonempty |-> 0,
                    records |-> <<>>, refs |-> <<>>, trimmed |-> <<>>,
                    rows |-> <<>>, log |-> <<>>, warnings |-> <<>>,
                    exc |-> None]

\* The output record of a non-empty result: write_sam with an aligner,
\* else write_fastq or write_fasta.
OutputRecord(w, read_id, res) ==
    IF w.aligner
    THEN <<"sam", read_id, res.mapping = NoMapping>>
    ELSE IF w.fastq THEN <<"fastq", read_id, FALSE>>
    ELSE <<"fasta", read_id, FALSE>>

\* write_trimmed_fast5: nothing without a mapping; else the trimmed raw
\* signal read.raw[trim_start:trim_end], or the exception of the trim.
WriteTrimmedFast5(read_id, res, stride) ==
    IF Truthy(res.mapping)
    THEN LET t == TrimPositions(res.alignments, res.mapping, stride)
         IN  IF t.exc # None
             THEN [exc |-> t.exc, files |-> <<>>]
             ELSE [exc |-> None, files |-> << <<read_id, t.value>> >>]
    ELSE [exc |-> None, files |-> <<>>]

\* write_ref: one reference record for a mapped read.
WriteRef(read_id, res) ==
    IF Truthy(res.mapping) THEN <<read_id>> ELSE <<>>

\* One pass of the loop of Writer.run over the next (read, res), whole.  An
\* exception ends the thread where it is raised: what was written before it
\* stays written.
WriterStep ==
    /\ wr.pc = "run"
    /\ wr.iterator # <<>>
    /\ LET res     == Head(wr.iterator)
           read    == WrRead(wr.consumed + 1, wr.duplex)
           read_id == ReadId(read)
           taken   == [wr EXCEPT !.iterator = Tail(@), !.consumed = @ + 1,
                                 !.nonempty = IF Len(res.sequence) > 0
                                              THEN @ + 1 ELSE @]
           trimres == IF wr.aligner /\ wr.trim
                      THEN WriteTrimmedFast5(read_id, res, wr.stride)
                      ELSE [exc |-> None, files |-> <<>>]
           written == [taken EXCEPT
                          !.records = Append(@, OutputRecord(wr, read_id, res)),
                          !.refs = IF wr.aligner /\ wr.trim
                                   THEN @ \o WriteRef(read_id, res) ELSE @]
       IN  IF Len(res.sequence) > 0
           THEN IF trimres.exc # None
                THEN wr' = [written EXCEPT !.pc = "raised", !.exc = trimres.exc]
                ELSE wr' = [written EXCEPT
                               !.trimmed = @ \o trimres.files,
                               !.rows = Append(@, read_id),
                               !.log = Append(@, <<read_id, Samples(read)>>)]
           ELSE wr' = [taken EXCEPT !.warnings = Append(@, read_id)]
    /\ UNCHANGED notWr

\* The iterator is exhausted: the loop and the thread end.
WriterDone ==
    /\ wr.pc = "run"
    /\ wr.iterator = <<>>
    /\ wr' = [wr EXCEPT !.pc = "done"]
    /\ UNCHANGED notWr

WrInit == PipeIdle /\ SplitIdle /\ QuantIdle /\ DecIdle /\ TrimIdle /\ WrStart /\ MainIdle /\ LogIdle

WrNext == WriterStep \/ WriterDone

WrSpec == WrInit /\ [][WrNext]_vars

\* C9: for every (read, result) the Writer consumes exactly one of two
\* outcomes happens: a non-empty sequence gives one output record, one
\* summary row and one log entry; an empty one gives a warning naming the
\* read and nothing else.  So the counts of output records, summary rows and
\* log entries all equal the number of non-empty results consumed.
C9_OneOutcomePerResult ==
    wr.pc # "idle" =>
        /\ Len(wr.records) = wr.nonempty
        /\ Len(wr.rows) = wr.nonempty
        /\ Len(wr.log) = wr.nonempty
        /\ Len(wr.warnings) = wr.consumed - wr.nonempty
        /\ \A i \in 1..Len(wr.records) :
              wr.records[i][2] = wr.rows[i] /\ wr.log[i][1] = wr.rows[i]

\* The same, for a Writer that does not trim.
WriterCountsWithoutTrim == wr.pc # "idle" /\ ~wr.trim => C9_OneOutcomePerResult

(***************************************************************************)
(* The pipeline of basecall (crf/basecall.py)                              *)
(*                                                                         *)
(* reads -> split_read -> chunk -> batchify -> thread_iter ->              *)
(* compute_scores, quantise_int8 -> unbatchify, stitch ->                  *)
(* thread_map(transfer, n_thread=1) -> thread_map(_decode, n_thread=8) ->  *)
(* groupby -> result dict.                                                 *)
(*                                                                         *)
(* thread_iter, thread_map, batchify and unbatchify are the repository's   *)
(* bonito.multiprocessing and bonito.util: a producer thread that fills a  *)
(* bounded queue; worker threads that each pull the next input, apply the  *)
(* function and put the result on a bounded output queue, so a stage's     *)
(* output order is its workers' completion order.  A read is its position  *)
(* in the input; a sub-read is <<read, start, end>> and stands for its     *)
(* chunk, its scores and its decoded string alike.                         *)
(***************************************************************************)

\* Most reads in one input.
MaxReads == 3

\* batchsize, scaled down: the sub-reads (of one chunk each) in a batch.
BatchSize == 1

\* The capacity of every queue between two stages.
QueueCap == 1

\* def split_read(read, split_read_length=400000)
SplitReadLength == 400000

\* thread_map(transfer, stitched, n_thread=1)
NTransfer == 1

\* thread_map(_decode, transferred, n_thread=8)
NDecode == 8

\* The signal lengths drawn: one sub-read, two sub-reads.
ReadLens == {SplitReadLength, SplitReadLength + 1}

Reverse(q) == [i \in 1..Len(q) |-> q[Len(q) + 1 - i]]

\* split_read(read)[::-1 if reverse else 1]
SubReads(read, siglen, reverse) ==
    LET pieces == SplitRead(read, siglen, SplitReadLength)
    IN  IF reverse THEN Reverse(pieces) ELSE pieces

RECURSIVE ReadChunks(_, _, _)
\* (read_chunk for read in reads for read_chunk in split_read(read)[...]):
\* the sub-reads of reads k, k + 1, ... in the order the generator yields.
ReadChunks(reads, k, reverse) ==
    IF k > Len(reads) THEN <<>>
    ELSE SubReads(k, reads[k], reverse) \o ReadChunks(reads, k + 1, reverse)

\* Two transfer workers instead of the one.
TransferThreadsTwo == 1..(NTransfer + 1)

\* The worker threads of thread_map(transfer, stitched, n_thread=1): they
\* are what pulls the stitched generator, and with it compute_scores.
TransferThreads == 1..NTransfer

\* A bounded queue accepts a put only below its capacity.
Full(q) == Len(q) >= QueueCap

IdleThread == [pc |-> "idle", held |-> <<>>]

\* The group groupby is collecting, before its first item.
NoGroup == [open |-> FALSE, key |-> 0, parts |-> <<>>]

PipeStart ==
    \E n \in 1..MaxReads, reverse \in BOOLEAN :
        \E reads \in [1..n -> ReadLens] :
            pipe = [pc |-> "run", reverse |-> reverse, reads |-> reads,
                    todo |-> ReadChunks(reads, 1, reverse),
                    chunkq |-> <<>>,
                    scorer |-> [t \in TransferThreads |-> IdleThread],
                    scored |-> <<>>,
                    transferq |-> <<>>,
                    decoding |-> {},
                    decodedq |-> <<>>,
                    group |-> NoGroup,
                    out |-> <<>>]

\* batchify under thread_iter: the producer thread puts the next batch, of
\* up to batchsize chunks, on its queue, and blocks while the queue is full.
Produce ==
    /\ pipe.pc = "run"
    /\ pipe.todo # <<>>
    /\ ~Full(pipe.chunkq)
    /\ LET n == Min(BatchSize, Len(pipe.todo))
       IN  pipe' = [pipe EXCEPT
                       !.chunkq = Append(@, SubSeq(pipe.todo, 1, n)),
                       !.todo = SubSeq(@, n + 1, Len(@))]
    /\ UNCHANGED notPipe

\* A generator whose consumer would run it ahead of the demand.
ScoreEagerly(t) == pipe.scorer[t].pc = "idle"

\* batches and stitched are generators: the next batch is scored only when
\* the thread that pulls stitched finds nothing left of the batch before.
ScoreOnDemand(t) == pipe.scorer[t].pc = "idle" /\ pipe.scored = <<>>

\* compute_scores(model, batch) begins on the thread pulling stitched.
StartScore(t) ==
    /\ pipe.pc = "run"
    /\ ScoreOnDemand(t)
    /\ pipe.chunkq # <<>>
    /\ pipe' = [pipe EXCEPT
                   !.scorer[t] = [pc |-> "scoring", held |-> Head(pipe.chunkq)],
                   !.chunkq = Tail(@)]
    /\ UNCHANGED notPipe

\* compute_scores returns; quantise_int8, unbatchify and stitch turn the
\* batch into one stitched score per sub-read.
EndScore(t) ==
    /\ pipe.pc = "run"
    /\ pipe.scorer[t].pc = "scoring"
    /\ pipe' = [pipe EXCEPT
                   !.scored = @ \o pipe.scorer[t].held,
                   !.scorer[t] = IdleThread]
    /\ UNCHANGED notPipe

\* The transfer worker takes the next stitched score and runs transfer on it.
TakeStitched(t) ==
    /\ pipe.pc = "run"
    /\ pipe.scorer[t].pc = "idle"
    /\ pipe.scored # <<>>
    /\ pipe' = [pipe EXCEPT
                   !.scorer[t] = [pc |-> "transfer", held |-> <<Head(pipe.scored)>>],
                   !.scored = Tail(@)]
    /\ UNCHANGED notPipe

\* The transfer worker puts its result on the stage's output queue.
PutTransferred(t) ==
    /\ pipe.pc = "run"
    /\ pipe.scorer[t].pc = "transfer"
    /\ ~Full(pipe.transferq)
    /\ pipe' = [pipe EXCEPT
                   !.transferq = @ \o pipe.scorer[t].held,
                   !.scorer[t] = IdleThread]
    /\ UNCHANGED notPipe

\* A free decode worker takes the next transferred score and decodes it.
DecodeTake ==
    /\ pipe.pc = "run"
    /\ pipe.transferq # <<>>
    /\ Cardinality(pipe.decoding) < NDecode
    /\ pipe' = [pipe EXCEPT
                   !.decoding = @ \cup {Head(pipe.transferq)},
                   !.transferq = Tail(@)]
    /\ UNCHANGED notPipe

\* A decode worker finishes and puts (k, _decode(v)) on the output queue.
DecodePut(p) ==
    /\ pipe.pc = "run"
    /\ p \in pipe.decoding
    /\ ~Full(pipe.decodedq)
    /\ pipe' = [pipe EXCEPT
                   !.decodedq = Append(@, p),
                   !.decoding = @ \ {p}]
    /\ UNCHANGED notPipe

\* The key of groupby: x[0].parent if hasattr(x[0], 'parent') else x[0].
\* The reads of the input are the reader's, which carry no parent.
Key(read) == read

\* (read, ''.join(seq for k, seq in parts)) and the result dict around it.
Emit(group) == <<group.key, Join(group.parts)>>

\* groupby takes the next decode output: it joins the open group when the
\* key is the same, else the open group is emitted and a new one opens.
Consume ==
    /\ pipe.pc = "run"
    /\ pipe.decodedq # <<>>
    /\ LET x == Head(pipe.decodedq)
           g == pipe.group
       IN  IF g.open /\ g.key = Key(x[1])
           THEN pipe' = [pipe EXCEPT
                            !.decodedq = Tail(@),
                            !.group.parts = Append(@, <<x>>)]
           ELSE pipe' = [pipe EXCEPT
                            !.decodedq = Tail(@),
                            !.out = IF g.open THEN Append(@, Emit(g)) ELSE @,
                            !.group = [open |-> TRUE, key |-> Key(x[1]),
                                       parts |-> << <<x>> >>]]
    /\ UNCHANGED notPipe

Drained ==
    /\ pipe.todo = <<>>
    /\ pipe.chunkq = <<>>
    /\ \A t \in TransferThreads : pipe.scorer[t].pc = "idle"
    /\ pipe.scored = <<>>
    /\ pipe.transferq = <<>>
    /\ pipe.decoding = {}
    /\ pipe.decodedq = <<>>

\* Every stage has ended: groupby emits its last group.
Finish ==
    /\ pipe.pc = "run"
    /\ Drained
    /\ pipe' = [pipe EXCEPT
                   !.pc = "done",
                   !.out = IF pipe.group.open THEN Append(@, Emit(pipe.group)) ELSE @,
                   !.group = NoGroup]
    /\ UNCHANGED notPipe

PipeInit == PipeStart /\ SplitIdle /\ QuantIdle /\ DecIdle /\ TrimIdle /\ WrIdle /\ MainIdle /\ LogIdle

\* The threads upstream of the decode workers.
Upstream ==
    \/ Produce
    \/ \E t \in TransferThreads :
          StartScore(t) \/ EndScore(t) \/ TakeStitched(t) \/ PutTransferred(t)

PipeNext ==
    \/ Upstream
    \/ DecodeTake
    \/ \E p \in pipe.decoding : DecodePut(p)
    \/ Consume
    \/ Finish

PipeSpec == PipeInit /\ [][PipeNext]_vars

\* The positions of out that report read r.
TuplesOf(r) == {i \in 1..Len(pipe.out) : pipe.out[i][1] = r}

Scoring == {t \in TransferThreads : pipe.scorer[t].pc = "scoring"}

\* C4: at most one invocation of compute_scores is in progress at any time,
\* whatever the producer thread, the transfer worker and the decode workers
\* are doing.
C4_OneScorer == pipe.pc = "run" => Cardinality(Scoring) <= 1

\* compute_scores runs while the producer has a batch queued, a decode
\* worker is decoding and groupby holds an open group.
C4_Witness ==
    /\ pipe.pc = "run"
    /\ Cardinality(Scoring) = 1
    /\ pipe.chunkq # <<>>
    /\ pipe.decoding # {}
    /\ pipe.group.open

\* The scores produced by the scoring stage that no decode worker has taken.
Inflight ==
    Len(pipe.scored)
    + Cardinality({t \in TransferThreads : pipe.scorer[t].pc = "transfer"})
    + Len(pipe.transferq)

InflightBound == BatchSize + QueueCap

\* The transfer stage is blocked on its full output queue and the
\* producer's queue is full.
Saturated ==
    /\ Full(pipe.transferq)
    /\ \A t \in TransferThreads : pipe.scorer[t].pc = "transfer"
    /\ Full(pipe.chunkq)

\* C5: the scores produced but not yet taken by a decode worker never
\* exceed a constant fixed by the queue capacities (here batchsize plus the
\* capacity of the transfer stage's queue); the producer's queue never
\* exceeds its capacity; and once the queues are full no upstream thread
\* can take a step until a decode worker takes a score.
C5_Backpressure ==
    pipe.pc = "run" =>
        /\ Inflight <= InflightBound
        /\ Len(pipe.chunkq) <= QueueCap
        /\ Len(pipe.transferq) <= QueueCap
        /\ (Saturated => ~ENABLED Upstream)

\* Nothing has been emitted, input is left, and everything upstream has
\* stalled with the in-flight count at its bound.
C5_Witness ==
    /\ pipe.pc = "run"
    /\ pipe.out = <<>>
    /\ pipe.todo # <<>>
    /\ Inflight = InflightBound
    /\ ~ENABLED Upstream

(***************************************************************************)
(* The read loop of main (basecaller.py)                                   *)
(*                                                                         *)
(* The two nested loops (over the fast5 files, over the reads of each)     *)
(* visit the reads one after another: todo is what they have yet to        *)
(* visit.  A read is [read_id, len], len being len(raw_data).              *)
(***************************************************************************)

\* How many reads the directory holds.
MaxMainReads == 3

\* max_read_size = 1e9
max_read_size == 1000000000

\* len(raw_data) of the reads drawn: short ones, and ones at the limit.
RawLens == {1, 2, max_read_size, max_read_size + 1}

MainReads ==
    UNION {[1..n -> RawLens] : n \in 0..MaxMainReads}

\* samples is a Python int, which has no upper limit: the model keeps it as
\* hi * max_read_size + lo with 0 <= lo < max_read_size.
BigZero == [hi |-> 0, lo |-> 0]

\* samples += len(raw_data)
BigAdd(s, n) ==
    [hi |-> s.hi + (s.lo + n) \div max_read_size,
     lo |-> (s.lo + n) % max_read_size]

\* if len(raw_data) > max_read_size
TooLong(len) == len > max_read_size

MainStart ==
    \E lens \in MainReads :
        main = [pc |-> "loop",
                reads |-> [i \in 1..Len(lens) |-> [read_id |-> i, len |-> lens[i]]],
                todo |-> [i \in 1..Len(lens) |-> [read_id |-> i, len |-> lens[i]]],
                num_reads |-> 0, samples |-> BigZero,
                stderr |-> <<>>, scored |-> <<>>, queue |-> <<>>]

\* One pass of the loop body.  The branch taken for a read that is too long
\* writes the message and ends in `pass`: the body goes on to count the read,
\* run the model on it and put its posteriors on the decoder's queue.
MainIteration ==
    /\ main.pc = "loop"
    /\ main.todo # <<>>
    /\ LET r == Head(main.todo)
       IN  main' = [main EXCEPT
                       !.todo = Tail(@),
                       !.stderr = IF TooLong(r.len)
                                  THEN Append(@, <<"skipping", r.len, r.read_id>>)
                                  ELSE @,
                       !.num_reads = @ + 1,
                       !.samples = BigAdd(@, r.len),
                       !.scored = Append(@, r.read_id),
                       !.queue = Append(@, r.read_id)]
    /\ UNCHANGED notMain

\* The loops are exhausted: the totals are reported.
MainEnd ==
    /\ main.pc = "loop"
    /\ main.todo = <<>>
    /\ main' = [main EXCEPT
                   !.pc = "done",
                   !.stderr = Append(@, <<"completed reads", main.num_reads>>)]
    /\ UNCHANGED notMain

MainInit ==
    /\ PipeIdle /\ SplitIdle /\ QuantIdle /\ DecIdle /\ TrimIdle /\ WrIdle
    /\ MainStart /\ LogIdle

MainNext == MainIteration \/ MainEnd

MainSpec == MainInit /\ [][MainNext]_vars

\* The reads the loop has visited so far.
Visited == SubSeq(main.reads, 1, Len(main.reads) - Len(main.todo))

NotTooLong(r) == r.len <= max_read_size

IsTooLong(r) == r.len > max_read_size

RECURSIVE SumLens(_)
SumLens(rs) ==
    IF rs = <<>> THEN BigZero
    ELSE BigAdd(SumLens(SubSeq(rs, 1, Len(rs) - 1)), rs[Len(rs)].len)

Ids(rs) == [i \in 1..Len(rs) |-> rs[i].read_id]

\* C13: a read whose raw signal is longer than max_read_size is logged and
\* skipped: it is not counted in num_reads or samples, it is not scored, and
\* nothing is put on the decoder queue for it; every other read causes
\* exactly one put on the decoder queue.
C13_OversizedSkipped ==
    main.pc \in {"loop", "done"} =>
        LET kept == SelectSeq(Visited, NotTooLong)
            long == SelectSeq(Visited, IsTooLong)
        IN  /\ main.num_reads = Len(kept)
            /\ main.samples = SumLens(kept)
            /\ main.scored = Ids(kept)
            /\ main.queue = Ids(kept)
            /\ SelectSeq(main.stderr, LAMBDA m : m[1] = "skipping")
                  = [i \in 1..Len(long) |->
                        <<"skipping", long[i].len, long[i].read_id>>]

\* What the loop does: every read visited, too long or not, is counted,
\* scored and put on the queue, and the too long ones are logged as well.
MainCountsEveryRead ==
    main.pc \in {"loop", "done"} =>
        /\ main.num_reads = Len(Visited)
        /\ main.samples = SumLens(Visited)
        /\ main.scored = Ids(Visited)
        /\ main.queue = Ids(Visited)
        /\ Len(SelectSeq(main.stderr, LAMBDA m : m[1] = "skipping"))
              = Len(SelectSeq(Visited, IsTooLong))

(***************************************************************************)
(* CSVLogger (io.py)                                                       *)
(*                                                                         *)
(* A row of the file is a sequence of cells.  The file is opened for       *)
(* appending: file is what it held at construction, rows what the instance *)
(* has written since, each row tagged with the method that wrote it.       *)
(* columns is None or a list: [is_none |-> TRUE, names |-> <<>>] is None.  *)
(***************************************************************************)

\* set_columns is called only among the first MaxSetupCalls calls.
MaxSetupCalls == 2

\* How many appends a logger sees.
MaxAppends == 203

\* The count above which append flushes: if self.count > 100.
FlushAfter == 100

NoColumns == [is_none |-> TRUE, names |-> <<>>]

ColumnList(names) == [is_none |-> FALSE, names |-> names]

\* The file at construction: absent, empty, starting with a blank line,
\* holding a header, holding a header and a row.
NoFile == [exists |-> FALSE, lines |-> <<>>]

Files ==
    {NoFile} \cup
    {[exists |-> TRUE, lines |-> ls] :
        ls \in {<<>>, << <<>> >>, << <<"a">> >>, << <<"a">>, <<"1">> >>}}

\* csv.DictReader(f).fieldnames: the first line of the file, None when the
\* file has no line.
Fieldnames(file) ==
    IF file.lines = <<>> THEN NoColumns ELSE ColumnList(file.lines[1])

\* __init__: self.columns
InitialColumns(file) ==
    IF file.exists THEN Fieldnames(file) ELSE NoColumns

\* if self.columns: None and the empty list are falsy.
ColumnsSet(columns) == ~columns.is_none /\ columns.names # <<>>

\* The rows a caller appends: keys is row.keys(), get the dict.
RowDicts ==
    {[keys |-> <<>>, get |-> <<>>], [keys |-> <<"a">>, get |-> [a |-> "1"]]}

\* The arguments of set_columns.
ColumnArgs == {<<>>, <<"b">>}

\* row.get(k, '-')
Get(row, k) == IF k \in DOMAIN row.get THEN row.get[k] ELSE "-"

\* [row.get(k, '-') for k in self.columns]
Cells(row, columns) == [i \in 1..Len(columns.names) |-> Get(row, columns.names[i])]

\* A test that flushes one append early.
FlushDueAtThreshold(count) == count >= FlushAfter

\* if self.count > 100
FlushDue(count) == count > FlushAfter

LogStart ==
    \E file \in Files, row \in RowDicts :
        log = [pc |-> "open", file |-> file, row |-> row,
               columns |-> InitialColumns(file), count |-> 0,
               rows |-> <<>>, flushed |-> 0, flushes |-> <<>>,
               calls |-> 0, appends |-> 0, last |-> None, exc |-> None]

\* set_columns(columns) on the state l: the state it leaves.
SetColumns(l, columns) ==
    IF ColumnsSet(l.columns)
    THEN [l EXCEPT !.exc = "Columns already set"]
    ELSE [l EXCEPT !.exc = None,
                   !.columns = ColumnList(columns),
                   !.rows = Append(@, <<"header", columns>>)]

\* A call of set_columns by the logger's user.
CallSetColumns ==
    /\ log.pc = "open"
    /\ log.calls < MaxSetupCalls
    /\ \E columns \in ColumnArgs :
          log' = [SetColumns(log, columns) EXCEPT
                     !.calls = @ + 1, !.last = "set_columns"]
    /\ UNCHANGED notLog

\* append(row), whole: the header when columns is None, the row, the count
\* and the flush.
CallAppend ==
    /\ log.pc = "open"
    /\ log.appends < MaxAppends
    /\ LET l1 == IF log.columns.is_none
                 THEN SetColumns(log, log.row.keys)
                 ELSE [log EXCEPT !.exc = None]
           l2 == [l1 EXCEPT
                     !.rows = Append(@, <<"data", Cells(log.row, l1.columns)>>),
                     !.count = @ + 1]
           l3 == IF FlushDue(l2.count)
                 THEN [l2 EXCEPT !.count = 0,
                                 !.flushed = Len(l2.rows),
                                 !.flushes = Append(@, log.appends + 1)]
                 ELSE l2
       IN  log' = [l3 EXCEPT !.calls = @ + 1, !.appends = @ + 1,
                             !.last = "append"]
    /\ UNCHANGED notLog

LogInit ==
    /\ PipeIdle /\ SplitIdle /\ QuantIdle /\ DecIdle /\ TrimIdle /\ WrIdle
    /\ MainIdle /\ LogStart

LogNext == CallSetColumns \/ CallAppend

LogSpec == LogInit /\ [][LogNext]_vars

\* The positions of the rows of one kind among the rows the instance wrote.
RowsOf(kind) == {i \in 1..Len(log.rows) : log.rows[i][1] = kind}

\* The file existed with a header when the logger was built.
HadHeader == log.file.exists /\ ColumnsSet(Fieldnames(log.file))

\* C14: the instance writes the header row at most once, and before any
\* data row it writes; when the file already existed with a header, the
\* instance writes no header at all, and a set_columns call raises
\* 'Columns already set' without writing anything or changing the columns.
C14_HeaderOnce ==
    log.pc = "open" =>
        /\ Cardinality(RowsOf("header")) <= 1
        /\ \A h \in RowsOf("header"), d \in RowsOf("data") : h < d
        /\ HadHeader =>
              /\ RowsOf("header") = {}
              /\ log.columns = Fieldnames(log.file)
              /\ Len(log.rows) = log.appends
              /\ (log.last = "set_columns" => log.exc = "Columns already set")

\* No empty list of columns has been met: not as the first line of the
\* file, not as the keys of a row, not as the argument of set_columns.
NoEmptyColumns ==
    /\ log.file.lines # <<>> => log.file.lines[1] # <<>>
    /\ \A h \in RowsOf("header") : log.rows[h][2] # <<>>

\* The header is written once and first as long as every list of columns
\* has a name in it.
HeaderOnceWithNamedColumns ==
    (log.pc = "open" /\ NoEmptyColumns) =>
        /\ Cardinality(RowsOf("header")) <= 1
        /\ \A h \in RowsOf("header"), d \in RowsOf("data") : h < d

\* The data rows written since the last flush (or since construction).
Unflushed == {i \in RowsOf("data") : i > log.flushed}

\* C15: after every append 0 <= count <= 100; the rows appended since the
\* last flush never exceed 101; a flush happens on exactly every 101st
\* append since the previous flush (or since construction), and the counter
\* is 0 at that moment.
C15_FlushEvery101 ==
    log.pc = "open" =>
        /\ log.count \in 0..FlushAfter
        /\ Cardinality(Unflushed) = log.count
        /\ log.count = log.appends % (FlushAfter + 1)
        /\ log.flushes = [i \in 1..(log.appends \div (FlushAfter + 1)) |->
                              (FlushAfter + 1) * i]
        /\ (log.last = "append" /\ log.count = 0) =>
              /\ log.flushes # <<>>
              /\ log.flushes[Len(log.flushes)] = log.appends
              /\ log.flushed = Len(log.rows)

\* The second flush has just happened, on the 202nd append.
C15_Witness ==
    /\ log.pc = "open"
    /\ log.last = "append"
    /\ log.appends = 2 * (FlushAfter + 1)
    /\ log.flushes = <<FlushAfter + 1, 2 * (FlushAfter + 1)>>
    /\ log.count = 0
    /\ log.flushed = Len(log.rows)

====
